---- MODULE Spec2Model ----
(***************************************************************************)
(* A model of the DoT circulars watchers:                                  *)
(*   watch_dot_circulars.py  (detect, append, download, summarize, email)  *)
(*   dot_watcher.py          (detect, name, append, JSON payload)          *)
(* Text is modelled as a sequence of one-character strings, so that the    *)
(* string functions of the code (split, rpartition, strip, re.sub, slices) *)
(* are computed and not assumed.  A URL is written without its origin      *)
(* ("https://dot.gov.in"): it starts at the first "/" of its path.         *)
(***************************************************************************)
EXTENDS Integers, Sequences, FiniteSets, TLC

\* ------------------------------------------------------------------ bounds
\* pipeline runs in one behaviour of Spec
MaxRuns == 2
\* rows of one scraped listing
MaxListing == 2

\* ------------------------------------------------------------------ text

Range(s) == {s[i] : i \in 1..Len(s)}

IsPrefix(s, t) == Len(s) <= Len(t) /\ SubSeq(t, 1, Len(s)) = s

EndsWith(s, suf) ==
    Len(suf) <= Len(s) /\ SubSeq(s, Len(s) - Len(suf) + 1, Len(s)) = suf

\* "".join of a sequence of texts
RECURSIVE Flatten(_)
Flatten(ss) == IF ss = <<>> THEN <<>> ELSE Head(ss) \o Flatten(Tail(ss))

\* sep.join(parts)
RECURSIVE Join(_, _)
Join(parts, sep) ==
    IF parts = <<>> THEN <<>>
    ELSE IF Len(parts) = 1 THEN parts[1]
    ELSE parts[1] \o sep \o Join(Tail(parts), sep)

\* s.split(c)[-1]: what follows the last c, all of s when there is none
SplitLast(s, c) ==
    LET at == {i \in 1..Len(s) : s[i] = c}
    IN  IF at = {} THEN s
        ELSE LET m == CHOOSE i \in at : \A j \in at : j <= i
             IN  SubSeq(s, m + 1, Len(s))

\* s.split(c)[0]: what precedes the first c, all of s when there is none
SplitFirst(s, c) ==
    LET at == {i \in 1..Len(s) : s[i] = c}
    IN  IF at = {} THEN s
        ELSE LET m == CHOOSE i \in at : \A j \in at : i <= j
             IN  SubSeq(s, 1, m - 1)

\* s.strip(chars)
StripChars(s, chars) ==
    LET keep == {i \in 1..Len(s) : s[i] \notin chars}
    IN  IF keep = {} THEN <<>>
        ELSE LET lo == CHOOSE i \in keep : \A j \in keep : i <= j
                 hi == CHOOSE i \in keep : \A j \in keep : j <= i
             IN  SubSeq(s, lo, hi)

\* the characters of s that are in the set keep, in order
FilterChars(s, keep) == SelectSeq(s, LAMBDA c : c \in keep)

UpperCase == <<"A","B","C","D","E","F","G","H","I","J","K","L","M",
               "N","O","P","Q","R","S","T","U","V","W","X","Y","Z">>
LowerCase == <<"a","b","c","d","e","f","g","h","i","j","k","l","m",
               "n","o","p","q","r","s","t","u","v","w","x","y","z">>
DigitChars == <<"0","1","2","3","4","5","6","7","8","9">>

Digits == Range(DigitChars)
Alnum == Range(UpperCase) \cup Range(LowerCase) \cup Digits
Whitespace == {" ", "\t", "\n", "\r"}

\* str.lower()
Lower(s) ==
    [i \in 1..Len(s) |->
        IF \E k \in 1..Len(UpperCase) : UpperCase[k] = s[i]
        THEN LowerCase[CHOOSE k \in 1..Len(UpperCase) : UpperCase[k] = s[i]]
        ELSE s[i]]

\* str(k) of a natural number
RECURSIVE IntToStr(_)
IntToStr(k) ==
    IF k < 10 THEN <<DigitChars[k + 1]>>
    ELSE IntToStr(k \div 10) \o <<DigitChars[(k % 10) + 1]>>

PDF_EXT == <<".", "p", "d", "f">>
DOCUMENT == <<"d", "o", "c", "u", "m", "e", "n", "t">>

\* ------------------------------------------------------------------ csv
\* A store file is the sequence of its records, each kept as the text the csv
\* writer emits for it (without the constant "\r\n" terminator).  A header name
\* is a one-token text.

QUOTE == "\""
COMMA == ","
CsvSpecial == {COMMA, QUOTE, "\r", "\n"}

\* csv.writer, QUOTE_MINIMAL: one field
CsvField(f) ==
    IF \E i \in 1..Len(f) : f[i] \in CsvSpecial
    THEN <<QUOTE>>
         \o Flatten([i \in 1..Len(f) |->
                IF f[i] = QUOTE THEN <<QUOTE, QUOTE>> ELSE <<f[i]>>])
         \o <<QUOTE>>
    ELSE f

\* csv.writer.writerow(fields)
CsvWriteRow(fields) ==
    Join([i \in 1..Len(fields) |-> CsvField(fields[i])], <<COMMA>>)

\* csv.reader on one record's text: st is the reader's state
\* ("start" of a field, "plain" field, "quoted" field, "qq" after a quote seen
\* inside a quoted field), cur the field being read, done the fields read.
RECURSIVE CsvScan(_, _, _, _, _)
CsvScan(s, i, st, cur, done) ==
    IF i > Len(s) THEN Append(done, cur)
    ELSE LET c == s[i] IN
         CASE st = "start" ->
                IF c = QUOTE THEN CsvScan(s, i + 1, "quoted", <<>>, done)
                ELSE IF c = COMMA THEN CsvScan(s, i + 1, "start", <<>>, Append(done, <<>>))
                ELSE CsvScan(s, i + 1, "plain", <<c>>, done)
           [] st = "plain" ->
                IF c = COMMA THEN CsvScan(s, i + 1, "start", <<>>, Append(done, cur))
                ELSE CsvScan(s, i + 1, "plain", Append(cur, c), done)
           [] st = "quoted" ->
                IF c = QUOTE THEN CsvScan(s, i + 1, "qq", cur, done)
                ELSE CsvScan(s, i + 1, "quoted", Append(cur, c), done)
           [] OTHER ->
                IF c = QUOTE THEN CsvScan(s, i + 1, "quoted", Append(cur, c), done)
                ELSE IF c = COMMA THEN CsvScan(s, i + 1, "start", <<>>, Append(done, cur))
                ELSE CsvScan(s, i + 1, "plain", Append(cur, c), done)

\* csv.reader: the fields of one record; an empty line is the empty record
CsvReadRow(s) == IF s = <<>> THEN <<>> ELSE CsvScan(s, 1, "start", <<>>, <<>>)

\* csv.DictReader row.get(key): the field under the header name key (the last
\* such column), the empty text when the row has none (None and "" are both
\* falsy, and the code only tests the value or defaults it to "").
RowGet(header, row, key) ==
    LET at == {i \in 1..Len(header) : header[i] = key /\ i <= Len(row)}
    IN  IF at = {} THEN <<>>
        ELSE row[CHOOSE i \in at : \A j \in at : j <= i]

\* csv.DictReader(f): the parsed data rows (blank records are skipped) with the
\* header they are read under
DictRows(lines) ==
    IF lines = <<>> THEN <<>>
    ELSE SelectSeq([i \in 1..(Len(lines) - 1) |-> CsvReadRow(lines[i + 1])],
                   LAMBDA r : r # <<>>)

DictHeader(lines) == IF lines = <<>> THEN <<>> ELSE CsvReadRow(lines[1])

K_TITLE == <<"title">>
K_DATE == <<"publish_date">>
K_URL == <<"pdf_url">>
K_NAME == <<"pdf_filename">>

HEADER3 == <<K_TITLE, K_DATE, K_URL>>
HEADER4 == <<K_TITLE, K_DATE, K_URL, K_NAME>>

\* ------------------------------------------------------- filename helpers
\* (dot_watcher.py)

\* sanitize_name's max_len default
MaxNameLen == 120
\* make_pdf_filename keeps the first 8 digits of the date
DateDigits == 8

\* urlparse(url).path of an origin-less URL: what precedes the query ("?") and
\* the fragment ("#")
UrlPath(url) ==
    LET at == {i \in 1..Len(url) : url[i] \in {"?", "#"}}
    IN  IF at = {} THEN url
        ELSE SubSeq(url, 1, (CHOOSE i \in at : \A j \in at : i <= j) - 1)

\* urllib.parse.unquote, for the escapes of the characters of the model's
\* alphabet: %20 is a space, %2E a dot; any other "%" stays as it is
RECURSIVE Unquote(_)
Unquote(s) ==
    IF s = <<>> THEN <<>>
    ELSE IF Len(s) >= 3 /\ SubSeq(s, 1, 3) = <<"%", "2", "0">>
         THEN <<" ">> \o Unquote(SubSeq(s, 4, Len(s)))
    ELSE IF Len(s) >= 3 /\ SubSeq(s, 1, 3) \in {<<"%", "2", "E">>, <<"%", "2", "e">>}
         THEN <<".">> \o Unquote(SubSeq(s, 4, Len(s)))
    ELSE <<Head(s)>> \o Unquote(Tail(s))

filename_from_url(url) ==
    IF url = <<>> THEN <<>>
    ELSE Unquote(SplitLast(UrlPath(url), "/"))

\* re.sub(r"\s+", " ", name): every run of whitespace becomes one space
RECURSIVE CollapseSpace(_)
CollapseSpace(s) ==
    IF s = <<>> THEN <<>>
    ELSE IF Head(s) \in Whitespace
         THEN IF Len(s) >= 2 /\ s[2] \in Whitespace
              THEN CollapseSpace(Tail(s))
              ELSE <<" ">> \o CollapseSpace(Tail(s))
    ELSE <<Head(s)>> \o CollapseSpace(Tail(s))

SafeChars == Alnum \cup {"-", "_", ".", " "}

sanitize_name(name) ==
    IF name = <<>> THEN <<>>
    ELSE LET s1 == StripChars(CollapseSpace(name), Whitespace)
             s2 == FilterChars(s1, SafeChars)
             s3 == [i \in 1..Len(s2) |-> IF s2[i] = " " THEN "_" ELSE s2[i]]
             s4 == IF Len(s3) > MaxNameLen THEN SubSeq(s3, 1, MaxNameLen) ELSE s3
             s5 == StripChars(s4, {".", "_", "-"})
         IN  IF s5 = <<>> THEN DOCUMENT ELSE s5

\* base_name.rpartition("."): <<stem, dot, ext>>
RPartitionDot(base) ==
    LET at == {i \in 1..Len(base) : base[i] = "."}
    IN  IF at = {} THEN << <<>>, <<>>, base >>
        ELSE LET m == CHOOSE i \in at : \A j \in at : j <= i
             IN  << SubSeq(base, 1, m - 1), <<".">>, SubSeq(base, m + 1, Len(base)) >>

\* the candidate ensure_unique_name tries for a counter
Candidate(base_name, counter) ==
    LET p == RPartitionDot(base_name)
        stem == IF p[2] = <<>> THEN base_name ELSE p[1]
        ext == IF p[2] = <<>> THEN <<>> ELSE p[3]
    IN  IF ext # <<>>
        THEN stem \o <<"-">> \o IntToStr(counter) \o <<".">> \o ext
        ELSE stem \o <<"-">> \o IntToStr(counter)

\* the while loop ends at the first counter whose candidate is free; one of
\* the first Cardinality(existing) + 1 candidates is
ensure_unique_name(base_name, existing) ==
    IF base_name \notin existing THEN base_name
    ELSE LET free == {k \in 1..(Cardinality(existing) + 1) :
                        Candidate(base_name, k) \notin existing}
         IN  Candidate(base_name, CHOOSE k \in free : \A j \in free : k <= j)

\* the name make_pdf_filename derives before it is made unique
BaseName(item) ==
    LET url_name == filename_from_url(item.pdf_url)
    IN  IF url_name # <<>> /\ EndsWith(Lower(url_name), PDF_EXT)
        THEN LET base == sanitize_name(url_name)
             IN  IF EndsWith(Lower(base), PDF_EXT) THEN base ELSE base \o PDF_EXT
        ELSE LET title == IF item.title = <<>> THEN DOCUMENT ELSE item.title
                 digits == FilterChars(item.publish_date, Digits)
                 date_compact == SubSeq(digits, 1,
                                   IF Len(digits) < DateDigits THEN Len(digits) ELSE DateDigits)
                 parts == IF date_compact # <<>> THEN <<title, date_compact>> ELSE <<title>>
                 suggested == sanitize_name(Join(parts, <<"_">>))
             IN  IF EndsWith(Lower(suggested), PDF_EXT) THEN suggested
                 ELSE suggested \o PDF_EXT

\* a make_pdf_filename that does not add the name it returns to the set
make_pdf_filename_NoAdd(item, existing_names) ==
    [final |-> ensure_unique_name(BaseName(item), existing_names),
     existing_names |-> existing_names]

\* make_pdf_filename(item, existing_names): the name returned (final) and the
\* caller's set as the call leaves it (existing_names.add(final))
make_pdf_filename(item, existing_names) ==
    LET final == ensure_unique_name(BaseName(item), existing_names)
    IN  [final |-> final, existing_names |-> existing_names \cup {final}]

\* ------------------------------------------------------------------ state

VARIABLES
    \* the store, its reader and the runs (both programs)
    prog,         \* the program the behaviour runs: "watch" | "watcher"
    master,       \* MASTER_CSV: [exists, lines]
    json,         \* JSON_OUT of dot_watcher: [exists, generated_at, count, items]
    runs,         \* runs started so far
    stage,        \* where the last run is or ended
    exit_status,  \* exit status of the last run (-1 before the first)
    before,       \* MASTER_CSV as the last run found it
    all_rows,     \* the listing the last run scraped
    new_rows,     \* the entries the last run judged new
    again,        \* the last run saw the listing of the completed run before it
    has_new,      \* the has_new output of the last run of watch_dot_circulars
    origin,       \* the store before the first run: "missing" | "empty" | "old"
    \* the download, summary and email steps of watch_dot_circulars
    pdfs,             \* PDF_DIR: the set of [name, content]
    sums,             \* SUM_DIR: the set of [name, content]
    email,            \* EMAIL_BODY_PATH: [exists, items, downloaded]
    dl_results,       \* what download_pdf returned for each new entry so far
    downloaded_paths, \* the list of the same name in __main__
    dl_entries,       \* the new entry each downloaded path was returned for
    summaries_map,    \* the dict of the same name in __main__: set of [name, summary]
    entry_summary,    \* the summary computed for the path of each new entry
    sum_j,            \* paths summarized so far
    \* a batch of make_pdf_filename calls sharing existing_names
    nm_existing,      \* the shared existing_names set
    nm_base,          \* the base name every candidate of the batch derives
    nm_pre,           \* existing_names before each call
    nm_out,           \* the name each call returned
    \* one call of chunk_text
    ck_pc,        \* "idle" | "loop" | "done"
    ck_s,         \* its arguments
    ck_size,
    ck_overlap,
    ck_i,         \* the local i
    ck_chunks,    \* the local chunks
    ck_starts,    \* the value of i at each append
    \* one call of summarize_with_openai
    sm_pc,        \* "idle" | "call" | "chunk" | "map" | "reduce" | "done"
    sm_key,       \* OPENAI_API_KEY is set
    sm_sdk,       \* the openai package can be imported
    sm_text,      \* the argument pdf_text
    sm_partials,  \* the local partials
    sm_calls,     \* the chat completion calls issued, in order, and how each ended
    sm_result     \* the value returned

storeVars == <<prog, master, json, runs, stage, exit_status, before, all_rows,
               new_rows, again, has_new, origin>>
enrichVars == <<pdfs, sums, email, dl_results, downloaded_paths, dl_entries,
                summaries_map, entry_summary, sum_j>>
nameVars == <<nm_existing, nm_base, nm_pre, nm_out>>
chunkVars == <<ck_pc, ck_s, ck_size, ck_overlap, ck_i, ck_chunks, ck_starts>>
sumVars == <<sm_pc, sm_key, sm_sdk, sm_text, sm_partials, sm_calls, sm_result>>

vars == <<storeVars, enrichVars, nameVars, chunkVars, sumVars>>

\* ------------------------------------------------------------------ inputs

R1 == [title |-> <<"T", ",", QUOTE>>, publish_date |-> <<"1">>,
       pdf_url |-> <<"/", "x", "/", "a", ".", "p", "d", "f">>]
R2 == [title |-> <<>>, publish_date |-> <<>>,
       pdf_url |-> <<"/", "y", "/", "a", ".", "p", "d", "f", "?", "d", "=", "1">>]
R3 == [title |-> <<"T">>, publish_date |-> <<"1", "-", "2">>,
       pdf_url |-> <<"/", "x", "/", "d", "?", "i", "=", "3">>]
R4 == [title |-> <<"T">>, publish_date |-> <<"1", "2">>,
       pdf_url |-> <<"/", "x", "/", "d", "?", "i", "=", "4">>]

\* the rows a listing is made of: scrape_all_rows keeps a row only when its
\* pdf_url is not empty
Rows == {R1, R3, R4}

Listings == UNION {[1..n -> Rows] : n \in 0..MaxListing}

NoFile == [exists |-> FALSE, lines |-> <<>>]
NoJson == [exists |-> FALSE, generated_at |-> 0, count |-> 0, items |-> <<>>]

\* ------------------------------------------------------- csv management

\* an ensure_csv_headers that writes the header whatever the file holds
ensure_csv_headers_Always(file, header) ==
    [exists |-> TRUE, lines |-> <<CsvWriteRow(header)>>]

\* ensure_csv_headers of either program: the header is written when the file
\* is missing or of size 0
ensure_csv_headers(file, header) ==
    IF ~file.exists \/ file.lines = <<>>
    THEN [exists |-> TRUE, lines |-> <<CsvWriteRow(header)>>]
    ELSE file

\* the pdf_url values a reader collects from the file
SeenUrls(file) ==
    LET h == DictHeader(file.lines)
        rs == DictRows(file.lines)
    IN  {RowGet(h, rs[i], K_URL) : i \in 1..Len(rs)} \ {<<>>}

\* watch_dot_circulars.load_seen_ids, its result (the file it leaves is
\* ensure_csv_headers(file, HEADER3))
load_seen_ids(file) == SeenUrls(ensure_csv_headers(file, HEADER3))

\* a diff that looks the title up among the seen pdf_url values
Diff_ByTitle(rows, seen) == SelectSeq(rows, LAMBDA r : r.title \notin seen)

\* new_rows = [r for r in all_rows if r["pdf_url"] not in seen]
Diff(rows, seen) == SelectSeq(rows, LAMBDA r : r.pdf_url \notin seen)

\* watch_dot_circulars.append_to_master
append_to_master(file, rows) ==
    LET f == ensure_csv_headers(file, HEADER3)
    IN  [f EXCEPT !.lines = @ \o
            [i \in 1..Len(rows) |->
                CsvWriteRow(<<rows[i].title, rows[i].publish_date, rows[i].pdf_url>>)]]

\* dot_watcher.load_seen_ids_and_names, the names it returns
SeenNames(file) ==
    LET h == DictHeader(file.lines)
        rs == DictRows(file.lines)
        named == {i \in 1..Len(rs) : RowGet(h, rs[i], K_NAME) # <<>>}
        inferred == {i \in (1..Len(rs)) \ named :
                        /\ RowGet(h, rs[i], K_URL) # <<>>
                        /\ filename_from_url(RowGet(h, rs[i], K_URL)) # <<>>}
    IN  {RowGet(h, rs[i], K_NAME) : i \in named}
        \cup {sanitize_name(filename_from_url(RowGet(h, rs[i], K_URL))) : i \in inferred}

load_seen_ids_and_names(file) ==
    LET f == ensure_csv_headers(file, HEADER4)
    IN  [seen_urls |-> SeenUrls(f), seen_names |-> SeenNames(f)]

\* dot_watcher.main's naming loop: each new row gets make_pdf_filename's name,
\* which joins existing_names before the next row is named
RECURSIVE NameRows(_, _)
NameRows(rows, names) ==
    IF rows = <<>> THEN <<>>
    ELSE LET made == make_pdf_filename(Head(rows), names)
             r2 == [title |-> Head(rows).title,
                    publish_date |-> Head(rows).publish_date,
                    pdf_url |-> Head(rows).pdf_url,
                    pdf_filename |-> made.final]
         IN  <<r2>> \o NameRows(Tail(rows), made.existing_names)

\* dot_watcher.append_to_master: opens in append mode, writes four columns
append_to_master_w(file, rows) ==
    [exists |-> TRUE,
     lines |-> file.lines \o
        [i \in 1..Len(rows) |->
            CsvWriteRow(<<rows[i].title, rows[i].publish_date, rows[i].pdf_url,
                          rows[i].pdf_filename>>)]]

\* dot_watcher.write_json; generated_at is the time of the run, here its ordinal
write_json(rows, now) ==
    [exists |-> TRUE, generated_at |-> now, count |-> Len(rows), items |-> rows]

\* ------------------------------------------------------------ the runs
\* One action is one run of a program, from its start to its exit.  Runs of
\* one store do not overlap (the scheduler serializes them).

\* a store written by the older three-column schema
OldRow(r) == CsvWriteRow(<<r.title, r.publish_date, r.pdf_url>>)
OldStores ==
    {[exists |-> TRUE, lines |-> <<CsvWriteRow(HEADER3)>>],
     [exists |-> TRUE, lines |-> <<CsvWriteRow(HEADER3), OldRow(R1)>>]}

EmptyFile == [exists |-> TRUE, lines |-> <<>>]

Completed == stage \in {"no_rows", "no_new", "done"}

NoEmail == [exists |-> FALSE, items |-> <<>>, downloaded |-> <<>>]

\* the parts of the state a specification does not use stay as they are here
StoreIdle ==
    /\ prog = "none"
    /\ master = NoFile
    /\ json = NoJson
    /\ runs = 0
    /\ stage = "init"
    /\ exit_status = -1
    /\ before = NoFile
    /\ all_rows = <<>>
    /\ new_rows = <<>>
    /\ again = FALSE
    /\ has_new = "unset"
    /\ origin = "missing"

EnrichIdle ==
    /\ pdfs = {}
    /\ sums = {}
    /\ email = NoEmail
    /\ dl_results = <<>>
    /\ downloaded_paths = <<>>
    /\ dl_entries = <<>>
    /\ summaries_map = {}
    /\ entry_summary = <<>>
    /\ sum_j = 0

NameIdle ==
    /\ nm_existing = {}
    /\ nm_base = <<>>
    /\ nm_pre = <<>>
    /\ nm_out = <<>>

ChunkIdle ==
    /\ ck_pc = "idle"
    /\ ck_s = <<>>
    /\ ck_size = 0
    /\ ck_overlap = 0
    /\ ck_i = 0
    /\ ck_chunks = <<>>
    /\ ck_starts = <<>>

SumIdle ==
    /\ sm_pc = "idle"
    /\ sm_key = FALSE
    /\ sm_sdk = FALSE
    /\ sm_text = <<>>
    /\ sm_partials = <<>>
    /\ sm_calls = <<>>
    /\ sm_result = <<>>

Init ==
    /\ prog \in {"watch", "watcher"}
    /\ master \in (IF prog = "watch" THEN {NoFile, EmptyFile}
                    ELSE {NoFile, EmptyFile} \cup OldStores)
    /\ json = NoJson
    /\ runs = 0
    /\ stage = "init"
    /\ exit_status = -1
    /\ before = master
    /\ all_rows = <<>>
    /\ new_rows = <<>>
    /\ again = FALSE
    /\ has_new = "unset"
    /\ origin = (IF ~master.exists THEN "missing"
                 ELSE IF master.lines = <<>> THEN "empty" ELSE "old")
    /\ EnrichIdle /\ NameIdle /\ ChunkIdle /\ SumIdle

notStore == <<enrichVars, nameVars, chunkVars, sumVars>>

\* what every run records as it starts
Begin(listing) ==
    /\ runs < MaxRuns
    /\ runs' = runs + 1
    /\ before' = master
    /\ all_rows' = listing
    /\ again' = (Completed /\ listing = all_rows)

\* watch_dot_circulars: scrape_all_rows raises, the script dies with a traceback
WatchFetchFails ==
    /\ prog = "watch"
    /\ runs < MaxRuns
    /\ runs' = runs + 1
    /\ before' = master
    /\ again' = FALSE
    /\ stage' = "fetch_failed"
    /\ exit_status' = 1
    /\ new_rows' = <<>>
    /\ UNCHANGED <<prog, master, json, all_rows, has_new, origin, notStore>>

\* a run that loads the store before it looks at the listing
WatchNoRows_LoadsFirst ==
    /\ prog = "watch"
    /\ Begin(<<>>)
    /\ master' = ensure_csv_headers(master, HEADER3)
    /\ stage' = "no_rows"
    /\ has_new' = "false"
    /\ exit_status' = 0
    /\ new_rows' = <<>>
    /\ UNCHANGED <<prog, json, origin, notStore>>

\* watch_dot_circulars: the listing has no rows
WatchNoRows ==
    /\ prog = "watch"
    /\ Begin(<<>>)
    /\ stage' = "no_rows"
    /\ has_new' = "false"
    /\ exit_status' = 0
    /\ new_rows' = <<>>
    /\ UNCHANGED <<prog, master, json, origin, notStore>>

\* watch_dot_circulars: rows, none of them new
WatchNoNew ==
    /\ prog = "watch"
    /\ runs < MaxRuns
    /\ \E seen \in {load_seen_ids(master)} :
        \E listing \in Listings \ {<<>>} :
            /\ Diff(listing, seen) = <<>>
            /\ Begin(listing)
    /\ master' = ensure_csv_headers(master, HEADER3)
    /\ stage' = "no_new"
    /\ has_new' = "false"
    /\ exit_status' = 0
    /\ new_rows' = <<>>
    /\ UNCHANGED <<prog, json, origin, notStore>>

\* watch_dot_circulars: new rows are appended (lines 311-318); the download,
\* summary and email steps that follow touch PDF_DIR, SUM_DIR and the email
\* body, never the store, and end the run with has_new=true
WatchNew ==
    /\ prog = "watch"
    /\ runs < MaxRuns
    /\ \E seen \in {load_seen_ids(master)} :
        \E listing \in Listings \ {<<>>} :
            \E new \in {Diff(listing, seen)} :
                /\ new # <<>>
                /\ Begin(listing)
                /\ new_rows' = new
                /\ master' = append_to_master(master, new)
    /\ stage' = "done"
    /\ has_new' = "true"
    /\ exit_status' = 0
    /\ UNCHANGED <<prog, json, origin, notStore>>

\* dot_watcher: scrape_all_rows raises, SystemExit(1)
WatcherFetchFails ==
    /\ prog = "watcher"
    /\ runs < MaxRuns
    /\ runs' = runs + 1
    /\ before' = master
    /\ again' = FALSE
    /\ stage' = "fetch_failed"
    /\ exit_status' = 1
    /\ new_rows' = <<>>
    /\ UNCHANGED <<prog, master, json, all_rows, has_new, origin, notStore>>

\* dot_watcher: the listing has no rows, SystemExit(0)
WatcherNoRows ==
    /\ prog = "watcher"
    /\ Begin(<<>>)
    /\ stage' = "no_rows"
    /\ exit_status' = 0
    /\ new_rows' = <<>>
    /\ UNCHANGED <<prog, master, json, has_new, origin, notStore>>

\* dot_watcher: rows, none of them new: an empty payload is written
WatcherNoNew ==
    /\ prog = "watcher"
    /\ runs < MaxRuns
    /\ \E seen \in {load_seen_ids_and_names(master)} :
        \E listing \in Listings \ {<<>>} :
            /\ Diff(listing, seen.seen_urls) = <<>>
            /\ Begin(listing)
    /\ master' = ensure_csv_headers(master, HEADER4)
    /\ json' = write_json(<<>>, runs + 1)
    /\ stage' = "no_new"
    /\ exit_status' = 0
    /\ new_rows' = <<>>
    /\ UNCHANGED <<prog, has_new, origin, notStore>>

\* dot_watcher: new rows are named, appended and written to the payload
WatcherNew ==
    /\ prog = "watcher"
    /\ runs < MaxRuns
    /\ \E seen \in {load_seen_ids_and_names(master)},
          loaded \in {ensure_csv_headers(master, HEADER4)} :
        \E listing \in Listings \ {<<>>} :
            \E new_raw \in {Diff(listing, seen.seen_urls)} :
                /\ new_raw # <<>>
                /\ Begin(listing)
                /\ \E new_with_names \in {NameRows(new_raw, seen.seen_names)} :
                    /\ new_rows' = new_with_names
                    /\ master' = append_to_master_w(loaded, new_with_names)
                    /\ json' = write_json(new_with_names, runs + 1)
    /\ stage' = "done"
    /\ exit_status' = 0
    /\ UNCHANGED <<prog, has_new, origin, notStore>>

Next ==
    \/ WatchFetchFails
    \/ WatchNoRows
    \/ WatchNoNew
    \/ WatchNew
    \/ WatcherFetchFails
    \/ WatcherNoRows
    \/ WatcherNoNew
    \/ WatcherNew

Spec == Init /\ [][Next]_vars

\* ------------------------------------------------------ claims on the store

\* the data rows of the store as a reader parses them, and their pdf_url
StoreRows == DictRows(master.lines)
StoreUrl(i) == RowGet(DictHeader(master.lines), StoreRows[i], K_URL)

\* the text fields a program writes for an entry it judged new
WrittenFields(r) ==
    IF prog = "watch" THEN <<r.title, r.publish_date, r.pdf_url>>
    ELSE <<r.title, r.publish_date, r.pdf_url, r.pdf_filename>>

\* what the last run added to the store
Added == SubSeq(master.lines, Len(before.lines) + 1, Len(master.lines))

\* C1 (as claimed): from an empty store, whatever the listings of the runs,
\* any two distinct data rows of the master store differ in pdf_url.
C1_KeyUniqueness ==
    origin \in {"missing", "empty"} =>
        \A i, j \in 1..Len(StoreRows) : i # j => StoreUrl(i) # StoreUrl(j)

\* C2: a run that sees the listing of the completed run before it judges
\* nothing new and leaves the store as that run left it.
C2_DedupIdempotence ==
    again => (new_rows = <<>> /\ master = before)

\* C2's case: the second of two runs on one listing, the first of which
\* appended rows
C2_Witness ==
    /\ again
    /\ runs = 2
    /\ all_rows # <<>>
    /\ Len(master.lines) > 1
    /\ stage = "no_new"

\* C4 (as claimed): the pdf_filename values dot_watcher wrote (the fourth
\* field of a row) are pairwise distinct across the rows of the store, from an
\* empty store and from a store of the three-column schema alike.
C4_NameUniqueness ==
    prog = "watcher" =>
        \A i, j \in 1..Len(StoreRows) :
            (i # j /\ Len(StoreRows[i]) >= 4 /\ Len(StoreRows[j]) >= 4)
                => StoreRows[i][4] # StoreRows[j][4]

\* C8: a run whose listing fetch fails exits non-zero, one whose listing has
\* no rows exits 0, and both leave the store file as it was: no row, and no
\* header file created.
C8_EarlyExitsKeepStore ==
    /\ stage = "fetch_failed" => (exit_status # 0 /\ master = before)
    /\ stage = "no_rows" => (exit_status = 0 /\ master = before)

\* C8's case: a run has ended on an empty listing and there is still no file
C8_Witness ==
    /\ stage = "no_rows"
    /\ runs >= 1
    /\ ~master.exists

\* C9: the store before a run is a prefix of the store after it; the header
\* is written only when the file is missing or empty, so it is there once;
\* and the run adds the entries it judged new, one row each, in their order.
C9_AppendOnly ==
    runs >= 1 =>
        /\ IsPrefix(before.lines, master.lines)
        /\ before.exists => master.exists
        /\ LET headed == (before.lines = <<>> /\ stage \in {"no_new", "done"})
               rows == IF headed THEN Tail(Added) ELSE Added
           IN  /\ headed => (Added # <<>> /\ CsvReadRow(Head(Added)) =
                                (IF prog = "watch" THEN HEADER3 ELSE HEADER4))
               /\ Len(rows) = Len(new_rows)
               /\ \A i \in 1..Len(rows) :
                    CsvReadRow(rows[i]) = WrittenFields(new_rows[i])
        /\ \A i \in 2..Len(master.lines) :
                CsvReadRow(master.lines[i]) \notin {HEADER3, HEADER4}

\* C9's case: a second run has appended rows to the store the first run left
C9_Witness ==
    /\ runs = 2
    /\ Len(before.lines) > 1
    /\ new_rows # <<>>
    /\ stage = "done"

\* ------------------------------------- a batch of make_pdf_filename calls
\* calls of one batch
MaxBatch == 3

N1 == [title |-> <<"a">>, publish_date |-> <<>>,
       pdf_url |-> <<"/", "z", "/", "v", "?", "i", "=", "1">>]
N2 == [title |-> <<>>, publish_date |-> <<>>,
       pdf_url |-> <<"/", "y", "/", "a", "%", "2", "E", "p", "d", "f", "?", "d", "=", "1">>]
N3 == [title |-> <<" ", "T", "\t", " ", "1", "2", "!">>, publish_date |-> <<"x">>,
       pdf_url |-> <<"/", "x", "/">>]

\* candidates: those of the listings and three more, deriving "a.pdf" from a
\* title, "a.pdf" from an escaped URL, and "T_12.pdf" from a title alone
NameItems == Rows \cup {R2, N1, N2, N3}

A_PDF == <<"a", ".", "p", "d", "f">>
T_PDF == <<"T", "_", "1", "2", ".", "p", "d", "f">>

\* names the shared set may hold before the batch
NamePool ==
    {A_PDF, Candidate(A_PDF, 1), Candidate(A_PDF, 3),
     T_PDF, Candidate(T_PDF, 2), <<"b", ".", "p", "d", "f">>}

InitNames ==
    /\ nm_existing \in SUBSET NamePool
    /\ nm_base \in {BaseName(item) : item \in NameItems}
    /\ nm_pre = <<>>
    /\ nm_out = <<>>
    /\ StoreIdle /\ EnrichIdle /\ ChunkIdle /\ SumIdle

\* one call make_pdf_filename(item, existing_names) of the batch
MakeName ==
    /\ Len(nm_out) < MaxBatch
    /\ \E item \in NameItems :
        /\ BaseName(item) = nm_base
        /\ \E made \in {make_pdf_filename(item, nm_existing)} :
            /\ nm_out' = Append(nm_out, made.final)
            /\ nm_pre' = Append(nm_pre, nm_existing)
            /\ nm_existing' = made.existing_names
    /\ UNCHANGED <<nm_base, storeVars, enrichVars, chunkVars, sumVars>>

NextNames == MakeName

SpecNames == InitNames /\ [][NextNames]_vars

\* name is base with "-<k>" put before its extension, k a positive integer
\* written in decimal
SuffixForm(name, base) ==
    LET dots == {i \in 1..Len(base) : base[i] = "."}
        d == CHOOSE i \in dots : \A j \in dots : j <= i
        ext == SubSeq(base, d, Len(base))
        k == SubSeq(name, d + 1, Len(name) - Len(ext))
    IN  /\ dots # {}
        /\ Len(name) > Len(base) + 1
        /\ SubSeq(name, 1, d - 1) = SubSeq(base, 1, d - 1)
        /\ name[d] = "-"
        /\ EndsWith(name, ext)
        /\ \A i \in 1..Len(k) : k[i] \in Digits
        /\ k[1] # "0"

\* C3: the names returned to a batch of candidates of one base name are
\* pairwise distinct, none was in existing_names before its call, each is in
\* it after, and each after the first is <stem>-<k>.<ext>.
C3_BatchNamesUnique ==
    /\ \A i, j \in 1..Len(nm_out) : i # j => nm_out[i] # nm_out[j]
    /\ \A i \in 1..Len(nm_out) :
        /\ nm_out[i] \notin nm_pre[i]
        /\ nm_out[i] \in (IF i < Len(nm_out) THEN nm_pre[i + 1] ELSE nm_existing)
        /\ i >= 2 => SuffixForm(nm_out[i], nm_base)

\* C3's case: three calls, the first took the base name itself, and a name
\* already in the set was stepped over
C3_Witness ==
    /\ Len(nm_out) = 3
    /\ nm_out[1] = nm_base
    /\ nm_pre[1] # {}
    /\ nm_out[2] = Candidate(nm_base, 2)
    /\ nm_out[3] = Candidate(nm_base, 4)

\* ------------------------------------------------------ chunk_text
\* characters of the text of a call
MaxText == 6
\* the largest chunk_size of a call
MaxChunkSize == 3

Texts == UNION {[1..n -> {"a", "b"}] : n \in 0..MaxText}

InitChunk ==
    /\ ck_pc = "call"
    /\ ck_s \in Texts
    /\ ck_size \in 1..MaxChunkSize
    /\ ck_overlap \in 0..(ck_size - 1)
    /\ ck_i = 0
    /\ ck_chunks = <<>>
    /\ ck_starts = <<>>
    /\ StoreIdle /\ EnrichIdle /\ NameIdle /\ SumIdle

notChunk == <<storeVars, enrichVars, nameVars, sumVars>>

\* if not s: return []; else chunks = [], i = 0
ChunkEnter ==
    /\ ck_pc = "call"
    /\ ck_pc' = IF ck_s = <<>> THEN "done" ELSE "loop"
    /\ ck_i' = 0
    /\ ck_chunks' = <<>>
    /\ ck_starts' = <<>>
    /\ UNCHANGED <<ck_s, ck_size, ck_overlap, notChunk>>

\* a next start that forgets the overlap
NextStart_NoOverlap(j, n, overlap) == j

\* a next start that steps back by the overlap after the last window too
NextStart_AlwaysBack(j, n, overlap) == IF j - overlap < 0 THEN 0 ELSE j - overlap

\* i = j - overlap if j < n else j; if i < 0: i = 0
NextStart(j, n, overlap) ==
    LET i == IF j < n THEN j - overlap ELSE j
    IN  IF i < 0 THEN 0 ELSE i

\* one turn of the while loop
ChunkStep ==
    /\ ck_pc = "loop"
    /\ ck_i < Len(ck_s)
    /\ LET n == Len(ck_s)
           j == IF ck_i + ck_size < n THEN ck_i + ck_size ELSE n
       IN  /\ ck_chunks' = Append(ck_chunks, SubSeq(ck_s, ck_i + 1, j))
           /\ ck_starts' = Append(ck_starts, ck_i)
           /\ ck_i' = NextStart(j, n, ck_overlap)
    /\ UNCHANGED <<ck_pc, ck_s, ck_size, ck_overlap, notChunk>>

\* the loop ends: return chunks
ChunkReturn ==
    /\ ck_pc = "loop"
    /\ ~(ck_i < Len(ck_s))
    /\ ck_pc' = "done"
    /\ UNCHANGED <<ck_s, ck_size, ck_overlap, ck_i, ck_chunks, ck_starts, notChunk>>

NextChunk == ChunkEnter \/ ChunkStep \/ ChunkReturn

SpecChunk == InitChunk /\ [][NextChunk]_vars

\* the first window, then every later window without its first overlap
\* characters
Reassemble(chunks, overlap) ==
    IF chunks = <<>> THEN <<>>
    ELSE chunks[1] \o
         Flatten([k \in 1..(Len(chunks) - 1) |->
                    SubSeq(chunks[k + 1], overlap + 1, Len(chunks[k + 1]))])

\* C5: the windows chunk_text returns, with the overlaps removed, are the
\* text again; every window but the last has chunk_size characters; the
\* empty text gives no window.
C5_ChunkCoverage ==
    ck_pc = "done" =>
        /\ ck_s = <<>> => ck_chunks = <<>>
        /\ Reassemble(ck_chunks, ck_overlap) = ck_s
        /\ \A k \in 2..Len(ck_chunks) : Len(ck_chunks[k]) >= ck_overlap
        /\ \A k \in 1..(Len(ck_chunks) - 1) : Len(ck_chunks[k]) = ck_size

\* C5's case: three windows or more that overlap, the last a short one
C5_Witness ==
    /\ ck_pc = "done"
    /\ Len(ck_chunks) >= 3
    /\ ck_overlap >= 1
    /\ Len(ck_chunks[Len(ck_chunks)]) < ck_size
    /\ \E i \in 1..Len(ck_s) : ck_s[i] # ck_s[1]

\* ------------------------------------------------ summarize_with_openai
\* chunks of the longest text of a call
MaxBlocks == 3

\* chunk_text(pdf_text, chunk_size=6000, overlap=400)
SumChunkSize == 6000
SumOverlap == 400

\* the lengths of pdf_text: none, one character, and the longest text of k
\* chunks for each k
SumLengths ==
    {0, 1} \cup {SumChunkSize + (k - 1) * (SumChunkSize - SumOverlap) : k \in 1..MaxBlocks}

\* what a chat completion may answer (message.content): a text with blanks
\* around it, or blanks alone
Responses(tag) == { <<" ">> \o tag \o <<"\n">>, <<" ", "\n">> }

InitSum ==
    /\ sm_pc = "call"
    /\ sm_key \in BOOLEAN
    /\ sm_sdk \in BOOLEAN
    /\ sm_text \in {[i \in 1..n |-> "a"] : n \in SumLengths}
    /\ sm_partials = <<>>
    /\ sm_calls = <<>>
    /\ sm_result = <<>>
    /\ StoreIdle /\ EnrichIdle /\ NameIdle /\ ChunkIdle

notSum == <<storeVars, enrichVars, nameVars>>

Return(value) ==
    /\ sm_result' = value
    /\ sm_pc' = "done"

\* if not OPENAI_API_KEY: return ""
SumNoKey ==
    /\ sm_pc = "call"
    /\ ~sm_key
    /\ Return(<<>>)
    /\ UNCHANGED <<sm_key, sm_sdk, sm_text, sm_partials, sm_calls, chunkVars, notSum>>

\* from openai import OpenAI raises: return ""
SumNoSdk ==
    /\ sm_pc = "call"
    /\ sm_key
    /\ ~sm_sdk
    /\ Return(<<>>)
    /\ UNCHANGED <<sm_key, sm_sdk, sm_text, sm_partials, sm_calls, chunkVars, notSum>>

\* blocks = chunk_text(pdf_text, chunk_size=6000, overlap=400): the call
SumChunk ==
    /\ sm_pc = "call"
    /\ sm_key
    /\ sm_sdk
    /\ sm_pc' = "chunk"
    /\ ck_pc' = "call"
    /\ ck_s' = sm_text
    /\ ck_size' = SumChunkSize
    /\ ck_overlap' = SumOverlap
    /\ UNCHANGED <<ck_i, ck_chunks, ck_starts>>
    /\ UNCHANGED <<sm_key, sm_sdk, sm_text, sm_partials, sm_calls, sm_result, notSum>>

\* if not blocks: return ""
SumNoBlocks ==
    /\ sm_pc = "chunk"
    /\ ck_pc = "done"
    /\ ck_chunks = <<>>
    /\ Return(<<>>)
    /\ UNCHANGED <<sm_key, sm_sdk, sm_text, sm_partials, sm_calls, chunkVars, notSum>>

\* partials = []
SumBlocks ==
    /\ sm_pc = "chunk"
    /\ ck_pc = "done"
    /\ ck_chunks # <<>>
    /\ sm_pc' = "map"
    /\ sm_partials' = <<>>
    /\ UNCHANGED <<sm_key, sm_sdk, sm_text, sm_calls, sm_result, chunkVars, notSum>>

\* a call as the log keeps it
Call(kind, idx, input, ok, output) ==
    [kind |-> kind, idx |-> idx, input |-> input, ok |-> ok, output |-> output]

\* the map call of the next block answers: its stripped content is a partial
SumMapOk ==
    /\ sm_pc = "map"
    /\ Len(sm_calls) < Len(ck_chunks)
    /\ \E content \in Responses(<<"p">> \o IntToStr(Len(sm_calls) + 1)) :
        /\ sm_calls' = Append(sm_calls,
                Call("map", Len(sm_calls) + 1, <<>>, TRUE, content))
        /\ sm_partials' = Append(sm_partials, StripChars(content, Whitespace))
    /\ UNCHANGED <<sm_pc, sm_key, sm_sdk, sm_text, sm_result, chunkVars, notSum>>

\* the map call of the next block raises: logged, the loop goes on
SumMapFails ==
    /\ sm_pc = "map"
    /\ Len(sm_calls) < Len(ck_chunks)
    /\ sm_calls' = Append(sm_calls, Call("map", Len(sm_calls) + 1, <<>>, FALSE, <<>>))
    /\ UNCHANGED <<sm_pc, sm_key, sm_sdk, sm_text, sm_partials, sm_result, chunkVars,
                   notSum>>

\* if not partials: return ""
SumNoPartials ==
    /\ sm_pc = "map"
    /\ Len(sm_calls) = Len(ck_chunks)
    /\ sm_partials = <<>>
    /\ Return(<<>>)
    /\ UNCHANGED <<sm_key, sm_sdk, sm_text, sm_partials, sm_calls, chunkVars, notSum>>

\* combined = "\n".join(partials)
Combined == Join(sm_partials, <<"\n">>)

\* the reduce call answers: return its stripped content
SumReduceOk ==
    /\ sm_pc = "map"
    /\ Len(sm_calls) = Len(ck_chunks)
    /\ sm_partials # <<>>
    /\ \E content \in Responses(<<"f">>) :
        /\ sm_calls' = Append(sm_calls, Call("reduce", 0, Combined, TRUE, content))
        /\ Return(StripChars(content, Whitespace))
    /\ UNCHANGED <<sm_key, sm_sdk, sm_text, sm_partials, chunkVars, notSum>>

\* a reduce failure that falls back on the partials
SumReduceFails_Fallback ==
    /\ sm_pc = "map"
    /\ Len(sm_calls) = Len(ck_chunks)
    /\ sm_partials # <<>>
    /\ sm_calls' = Append(sm_calls, Call("reduce", 0, Combined, FALSE, <<>>))
    /\ Return(Combined)
    /\ UNCHANGED <<sm_key, sm_sdk, sm_text, sm_partials, chunkVars, notSum>>

\* the reduce call raises: return ""
SumReduceFails ==
    /\ sm_pc = "map"
    /\ Len(sm_calls) = Len(ck_chunks)
    /\ sm_partials # <<>>
    /\ sm_calls' = Append(sm_calls, Call("reduce", 0, Combined, FALSE, <<>>))
    /\ Return(<<>>)
    /\ UNCHANGED <<sm_key, sm_sdk, sm_text, sm_partials, chunkVars, notSum>>

NextSum ==
    \/ SumNoKey
    \/ SumNoSdk
    \/ SumChunk
    \/ ChunkEnter
    \/ ChunkStep
    \/ ChunkReturn
    \/ SumNoBlocks
    \/ SumBlocks
    \/ SumMapOk
    \/ SumMapFails
    \/ SumNoPartials
    \/ SumReduceOk
    \/ SumReduceFails

SpecSum == InitSum /\ [][NextSum]_vars

\* the number of windows of a text of n characters, for the summarizer's
\* chunk size and overlap
NumChunks(n) ==
    IF n = 0 THEN 0
    ELSE IF n <= SumChunkSize THEN 1
    ELSE 1 + ((n - SumChunkSize) + (SumChunkSize - SumOverlap) - 1)
                \div (SumChunkSize - SumOverlap)

MapCalls == SelectSeq(sm_calls, LAMBDA c : c.kind = "map")
ReduceCalls == SelectSeq(sm_calls, LAMBDA c : c.kind = "reduce")
MapsOk == SelectSeq(MapCalls, LAMBDA c : c.ok)

\* one map call per chunk, in chunk order, then the reduce call exactly when
\* a map call succeeded, on the successful partials in chunk order; the
\* result is the reduce output, or empty when it failed or was not made
MapReduceContract ==
    /\ Len(MapCalls) = NumChunks(Len(sm_text))
    /\ \A i \in 1..Len(MapCalls) : MapCalls[i].idx = i
    /\ sm_calls = MapCalls \o ReduceCalls
    /\ Len(ReduceCalls) = (IF MapsOk # <<>> THEN 1 ELSE 0)
    /\ ReduceCalls # <<>> =>
            ReduceCalls[1].input =
                Join([i \in 1..Len(MapsOk) |-> StripChars(MapsOk[i].output, Whitespace)],
                     <<"\n">>)
    /\ sm_result = (IF ReduceCalls # <<>> /\ ReduceCalls[1].ok
                    THEN StripChars(ReduceCalls[1].output, Whitespace)
                    ELSE <<>>)

\* C6 (as claimed): with credentials present, a finished call of
\* summarize_with_openai has kept the map-reduce contract.
C6_MapReduce ==
    (sm_pc = "done" /\ sm_key) => MapReduceContract

\* C6 (amended): with credentials present and the openai package importable,
\* a finished call of summarize_with_openai has kept the map-reduce contract.
C6_MapReduceWithSdk ==
    (sm_pc = "done" /\ sm_key /\ sm_sdk) => MapReduceContract

\* C6's case: three chunks, the map call of the second failed, the reduce
\* call answered
C6_Witness ==
    /\ sm_pc = "done"
    /\ sm_key
    /\ sm_sdk
    /\ Len(MapCalls) = 3
    /\ Len(MapsOk) = 2
    /\ ~MapCalls[2].ok
    /\ Len(ReduceCalls) = 1
    /\ ReduceCalls[1].ok
    /\ sm_result = <<"f">>

\* ------------------------- watch_dot_circulars: download, summary, email
\* One run that finds new entries, step by step: the store is the one an
\* earlier run left with R1 in it, PDF_DIR holds R1's file or nothing.

\* summary[:2000] of write_email_body
SummaryLimit == 2000

UNAVAILABLE == <<"(unavailable)">>

safe_pdf_filename(pdf_url) ==
    LET tail == SplitFirst(SplitLast(pdf_url, "/"), "?")
    IN  IF tail = <<>> THEN DOCUMENT ELSE tail

\* Path.stem: the name without its last suffix
Stem(name) ==
    LET p == RPartitionDot(name)
    IN  IF p[2] = <<>> \/ p[1] = <<>> \/ p[3] = <<>> THEN name ELSE p[1]

\* the file of a directory under a name, as a set of at most one
FileAt(dir, name) == {f \in dir : f.name = name}

\* writing a file replaces the one of the same name
WriteFile(dir, name, content) ==
    (dir \ FileAt(dir, name)) \cup {[name |-> name, content |-> content]}

\* what a successful summarize_with_openai returns for a text
SummaryOf(text) == <<"S", ":">> \o text

\* the listings of the run: one row for a URL
EnrichListings ==
    {l \in UNION {[1..n -> Rows \cup {R2}] : n \in 1..MaxListing} :
        \A i, j \in 1..Len(l) : l[i].pdf_url = l[j].pdf_url => i = j}

InitEnrich ==
    /\ prog = "watch"
    /\ master = append_to_master(NoFile, <<R1>>)
    /\ json = NoJson
    /\ runs = 0
    /\ stage = "init"
    /\ exit_status = -1
    /\ before = master
    /\ all_rows = <<>>
    /\ new_rows = <<>>
    /\ again = FALSE
    /\ has_new = "unset"
    /\ origin = "old"
    /\ pdfs \in {{}, {[name |-> safe_pdf_filename(R1.pdf_url), content |-> R1.pdf_url]}}
    /\ sums = {}
    /\ email = NoEmail
    /\ dl_results = <<>>
    /\ downloaded_paths = <<>>
    /\ dl_entries = <<>>
    /\ summaries_map = {}
    /\ entry_summary = <<>>
    /\ sum_j = 0
    /\ NameIdle /\ ChunkIdle /\ SumIdle

notEnrich == <<nameVars, chunkVars, sumVars>>
runVars == <<prog, master, json, runs, stage, exit_status, before, all_rows, new_rows,
             again, has_new, origin>>

\* the run up to append_to_master(new_rows)
EnrichBegin ==
    /\ stage = "init"
    /\ \E seen \in {load_seen_ids(master)} :
        \E listing \in EnrichListings :
            \E new \in {Diff(listing, seen)} :
                /\ new # <<>>
                /\ Begin(listing)
                /\ new_rows' = new
                /\ master' = append_to_master(master, new)
    /\ stage' = "enrich"
    /\ UNCHANGED <<prog, json, exit_status, has_new, origin, enrichVars, notEnrich>>

\* the entry the download loop is at
Downloading ==
    /\ stage = "enrich"
    /\ Len(dl_results) < Len(new_rows)

NextEntry == Len(dl_results) + 1
NextName == safe_pdf_filename(new_rows[NextEntry].pdf_url)

\* download_pdf returned the path dest
Downloaded ==
    /\ dl_results' = Append(dl_results, [ok |-> TRUE, name |-> NextName])
    /\ downloaded_paths' = Append(downloaded_paths, NextName)
    /\ dl_entries' = Append(dl_entries, NextEntry)

\* download_pdf: dest exists, "Already downloaded"
DownloadExists ==
    /\ Downloading
    /\ FileAt(pdfs, NextName) # {}
    /\ Downloaded
    /\ UNCHANGED <<pdfs, sums, email, summaries_map, entry_summary, sum_j>>
    /\ UNCHANGED <<runVars, notEnrich>>

\* download_pdf: the response is copied to dest
DownloadOk ==
    /\ Downloading
    /\ FileAt(pdfs, NextName) = {}
    /\ pdfs' = WriteFile(pdfs, NextName, new_rows[NextEntry].pdf_url)
    /\ Downloaded
    /\ UNCHANGED <<sums, email, summaries_map, entry_summary, sum_j>>
    /\ UNCHANGED <<runVars, notEnrich>>

\* download_pdf: the request or the copy raises, None is returned; a copy that
\* raises leaves dest behind with no document in it
DownloadFails ==
    /\ Downloading
    /\ FileAt(pdfs, NextName) = {}
    /\ \E opened \in BOOLEAN :
        pdfs' = IF opened THEN WriteFile(pdfs, NextName, <<>>) ELSE pdfs
    /\ dl_results' = Append(dl_results, [ok |-> FALSE, name |-> <<>>])
    /\ UNCHANGED <<downloaded_paths, dl_entries>>
    /\ UNCHANGED <<sums, email, summaries_map, entry_summary, sum_j>>
    /\ UNCHANGED <<runVars, notEnrich>>

\* the path the summary loop is at
Summarizing ==
    /\ stage = "enrich"
    /\ Len(dl_results) = Len(new_rows)
    /\ sum_j < Len(downloaded_paths)

NextPath == downloaded_paths[sum_j + 1]

\* extract_text_from_pdf(p): the text of the document the file holds
PathText == (CHOOSE f \in FileAt(pdfs, NextPath) : TRUE).content

\* the text is extracted and summarized: summaries_map[p.name] = summary,
\* save_summary(p, summary)
SummarizeOk ==
    /\ Summarizing
    /\ PathText # <<>>
    /\ \E summary \in {SummaryOf(PathText)} :
        /\ summaries_map' = WriteFile(summaries_map, NextPath, summary)
        /\ sums' = WriteFile(sums, Stem(NextPath) \o <<".summary.txt">>, summary)
        /\ entry_summary' = Append(entry_summary, summary)
    /\ sum_j' = sum_j + 1
    /\ UNCHANGED <<pdfs, email, dl_results, downloaded_paths, dl_entries>>
    /\ UNCHANGED <<runVars, notEnrich>>

\* the extraction fails or finds no text, or summarize_with_openai returns
\* "": nothing is kept for the path
SummarizeFails ==
    /\ Summarizing
    /\ entry_summary' = Append(entry_summary, <<>>)
    /\ sum_j' = sum_j + 1
    /\ UNCHANGED <<pdfs, sums, email, dl_results, downloaded_paths, dl_entries,
                   summaries_map>>
    /\ UNCHANGED <<runVars, notEnrich>>

\* name_to_summary.get(pdf_name) or ""
Lookup(map, name) ==
    IF FileAt(map, name) = {} THEN <<>>
    ELSE (CHOOSE f \in FileAt(map, name) : TRUE).content

\* the summary as the body shows it ("..." is the ellipsis character)
Shown(summary) ==
    IF Len(summary) > SummaryLimit
    THEN LET cut == SubSeq(summary, 1, SummaryLimit)
             keep == {i \in 1..Len(cut) : cut[i] \notin Whitespace}
         IN  SubSeq(cut, 1, IF keep = {} THEN 0
                            ELSE CHOOSE i \in keep : \A j \in keep : j <= i)
             \o <<" ", "...">>
    ELSE summary

\* the numbered item write_email_body writes for the row r
EmailItem(idx, r, map) ==
    LET pdf_name == SplitFirst(SplitLast(r.pdf_url, "/"), "?")
        summary == StripChars(Lookup(map, pdf_name), Whitespace)
    IN  [idx |-> idx,
         title |-> r.title,
         publish_date |-> r.publish_date,
         pdf_url |-> r.pdf_url,
         summary |-> IF summary # <<>> THEN Shown(summary) ELSE UNAVAILABLE,
         saved_file |-> pdf_name]

write_email_body(rows, paths, map) ==
    [exists |-> TRUE,
     items |-> [k \in 1..Len(rows) |-> EmailItem(k, rows[k], map)],
     downloaded |-> paths]

\* write_email_body and the outputs, the end of the run
WriteEmail ==
    /\ stage = "enrich"
    /\ Len(dl_results) = Len(new_rows)
    /\ sum_j = Len(downloaded_paths)
    /\ email' = write_email_body(new_rows, downloaded_paths, summaries_map)
    /\ has_new' = "true"
    /\ exit_status' = 0
    /\ stage' = "done"
    /\ UNCHANGED <<prog, master, json, runs, before, all_rows, new_rows, again, origin>>
    /\ UNCHANGED <<pdfs, sums, dl_results, downloaded_paths, dl_entries, summaries_map,
                   entry_summary, sum_j, notEnrich>>

NextEnrich ==
    \/ EnrichBegin
    \/ DownloadExists
    \/ DownloadOk
    \/ DownloadFails
    \/ SummarizeOk
    \/ SummarizeFails
    \/ WriteEmail

SpecEnrich == InitEnrich /\ [][NextEnrich]_vars

\* the summary the run computed for the k-th new entry: none when its
\* download failed
OwnSummary(k) ==
    LET at == {j \in 1..Len(entry_summary) : dl_entries[j] = k}
    IN  IF at = {} THEN <<>> ELSE entry_summary[CHOOSE j \in at : TRUE]

\* C7: a run of watch_dot_circulars with new entries, whatever failed, ends
\* with every new entry taken through the download step, the notification
\* written with one numbered item per new entry in discovery order, every
\* entry without a summary shown as "(unavailable)", has_new=true and exit
\* status 0.
C7_FaultIsolation ==
    (stage = "done" /\ new_rows # <<>>) =>
        /\ Len(dl_results) = Len(new_rows)
        /\ email.exists
        /\ Len(email.items) = Len(new_rows)
        /\ \A k \in 1..Len(new_rows) :
            /\ email.items[k].idx = k
            /\ email.items[k].title = new_rows[k].title
            /\ email.items[k].publish_date = new_rows[k].publish_date
            /\ email.items[k].pdf_url = new_rows[k].pdf_url
            /\ OwnSummary(k) = <<>> => email.items[k].summary = UNAVAILABLE
        /\ has_new = "true"
        /\ exit_status = 0

\* C10: a new entry whose download failed is in the notification with no
\* saved-file name and no summary text.
C10_DownloadFailureEmpty ==
    (stage = "done" /\ new_rows # <<>>) =>
        \A k \in 1..Len(new_rows) :
            ~dl_results[k].ok =>
                /\ email.items[k].saved_file = <<>>
                /\ email.items[k].summary = UNAVAILABLE

\* the summary the body would show for the document at the entry's own URL
OwnShown(k) == Shown(StripChars(SummaryOf(new_rows[k].pdf_url), Whitespace))

\* C11: at the end of a run of watch_dot_circulars, two new entries with
\* different pdf_url values whose downloads returned a path have different
\* local files, and a summary shown for an entry is the summary of the
\* document downloaded from that entry's own pdf_url.
C11_DisjointArtifacts ==
    (stage = "done" /\ new_rows # <<>>) =>
        /\ \A i, j \in 1..Len(new_rows) :
            (/\ new_rows[i].pdf_url # new_rows[j].pdf_url
             /\ dl_results[i].ok
             /\ dl_results[j].ok) => dl_results[i].name # dl_results[j].name
        /\ \A k \in 1..Len(new_rows) :
            email.items[k].summary # UNAVAILABLE =>
                email.items[k].summary = OwnShown(k)

\* ------------------------------------------ the payload of dot_watcher

\* the entries the last run appended to the store, as a reader parses their
\* lines: what the run added, less the header line when it wrote one
AppendedEntries ==
    LET first == (IF before.lines = <<>> THEN 1 ELSE Len(before.lines)) + 1
    IN  [i \in 1..(Len(master.lines) - first + 1) |->
            CsvReadRow(master.lines[first + i - 1])]

\* the fields of an item of the payload, in the order of the store's columns
ItemFields(item) ==
    <<item.title, item.publish_date, item.pdf_url, item.pdf_filename>>

\* JSON_OUT describes the last run
PayloadOfRun ==
    /\ json.exists
    /\ json.count = Len(AppendedEntries)
    /\ Len(json.items) = Len(AppendedEntries)
    /\ \A i \in 1..Len(json.items) : ItemFields(json.items[i]) = AppendedEntries[i]

\* C12: after every run of dot_watcher that ends with exit status 0, in any
\* sequence of runs, the items of the JSON payload are the entries that run
\* appended to the store, in order, and count is their number.
C12_PayloadReflectsRun ==
    (prog = "watcher" /\ runs > 0 /\ exit_status = 0) => PayloadOfRun

\* ------------------------------------------- chunk_text runs to its end
\* a call that has started keeps executing its statements
SpecChunkFair == SpecChunk /\ WF_vars(NextChunk)

\* the start of every window is greater than the start of the one before
StartsIncrease ==
    \A k \in 1..(Len(ck_starts) - 1) : ck_starts[k] < ck_starts[k + 1]

\* C13: for every text and every chunk_size > overlap >= 0, a call of
\* chunk_text returns, and the start index of each window is strictly
\* greater than the start index of the window before it.
C13_ChunkerTerminates ==
    /\ [](ck_pc # "idle" => StartsIncrease)
    /\ <>(ck_pc = "done")

\* C13's case: a call that returned after four windows or more, each
\* starting inside the one before it
C13_Witness ==
    /\ ck_pc = "done"
    /\ ck_overlap > 0
    /\ Len(ck_starts) >= 4
    /\ \A k \in 1..(Len(ck_starts) - 1) :
        /\ ck_starts[k] < ck_starts[k + 1]
        /\ ck_starts[k + 1] < ck_starts[k] + ck_size
====
